---- MODULE Spec2Model ----
(***************************************************************************)
(* FortniteBank: the transfer workflow (app.py), the account ledger        *)
(* (account_service.py) and the login throttle and session tokens          *)
(* (user_service.py).                                                      *)
(*                                                                         *)
(* Time is counted in ticks, TicksPerSecond ticks to the second, so that   *)
(* the truncation int(now.timestamp()) of create_token is visible.         *)
(* Every request is served by its own thread (Flask's threaded server):    *)
(* a handler is cut into steps at its accesses to shared state, the        *)
(* SQLite file bank.db and the dictionary _login_attempt_timestamps.       *)
(***************************************************************************)
EXTENDS Integers, Sequences, FiniteSets, TLC

VARIABLES
    db,         \* accounts.balance of the committed database, by account id
    lock,       \* the request whose connection holds SQLite's write lock, or NoRequest
    txn,        \* per request: the uncommitted writes of its connection
    pc,         \* per request: the statement the handler runs next
    req,        \* per request: the submitted form and g.user
    outcome,    \* per request: the response of the handler
    shown,      \* per request: the balance a details page rendered
    now,        \* time.time(), in ticks
    login_attempt_timestamps,   \* _login_attempt_timestamps, by client address
    attempt,    \* per login attempt: the handler's position and its locals
    jar,        \* the auth_token cookie a browser holds, when it was issued,
                \* the copy kept of it, and whether the browser has logged out since
    verdict     \* what logged_in() made of the cookie last presented, and when

ledgerVars == <<db, lock, txn, pc, req, outcome, shown>>

authVars == <<login_attempt_timestamps, attempt, jar, verdict>>

vars == <<ledgerVars, now, authVars>>

----------------------------------------------------------------------------
(* Bounds of the model *)

NumRequests == 2

Requests == 1..NumRequests

NoRequest == NumRequests + 1

\* resolution of the clock
TicksPerSecond == 2

\* the clock's value when the server starts (an epoch time, far from 0)
StartTime == 10000

----------------------------------------------------------------------------
(* The tables of bank.db: users(email) and accounts(id, owner, balance) *)

Users == {"alice", "bob"}

NoUser == "none"

AccountOwner == (1 :> "alice") @@ (2 :> "bob")

Accounts == DOMAIN AccountOwner

InitBalances == (1 :> 5) @@ (2 :> 1200)

\* an id that is no row of accounts
MissingId == 9

FormIds == Accounts \cup {MissingId}

----------------------------------------------------------------------------
(* Python's int(text), as far as the submitted amounts exercise it:        *)
(* surrounding blanks are stripped, one sign is allowed, then digits with  *)
(* single underscores between them; anything else raises ValueError.       *)

Digits == <<"0", "1", "2", "3", "4", "5", "6", "7", "8", "9">>

IsDigit(c) == \E i \in 1..10 : Digits[i] = c

DigitValue(c) == (CHOOSE i \in 1..10 : Digits[i] = c) - 1

RECURSIVE LStrip(_)
LStrip(s) == IF s # <<>> /\ Head(s) = " " THEN LStrip(Tail(s)) ELSE s

RECURSIVE RStrip(_)
RStrip(s) ==
    IF s # <<>> /\ s[Len(s)] = " " THEN RStrip(SubSeq(s, 1, Len(s) - 1)) ELSE s

\* digits with single underscores between digits only
RECURSIVE WellFormedDigits(_)
WellFormedDigits(s) ==
    IF s = <<>> THEN FALSE
    ELSE IF ~IsDigit(Head(s)) THEN FALSE
    ELSE IF Len(s) = 1 THEN TRUE
    ELSE IF s[2] = "_" THEN WellFormedDigits(SubSeq(s, 3, Len(s)))
    ELSE WellFormedDigits(Tail(s))

RECURSIVE DigitsValue(_, _)
DigitsValue(s, acc) ==
    IF s = <<>> THEN acc
    ELSE IF Head(s) = "_" THEN DigitsValue(Tail(s), acc)
    ELSE DigitsValue(Tail(s), 10 * acc + DigitValue(Head(s)))

\* int(text): [ok |-> TRUE, val |-> n], or ok = FALSE for ValueError
PyInt(text) ==
    LET s == RStrip(LStrip(text))
        signed == s # <<>> /\ Head(s) \in {"+", "-"}
        body == IF signed THEN Tail(s) ELSE s
    IN  IF WellFormedDigits(body)
        THEN [ok |-> TRUE,
              val |-> IF signed /\ Head(s) = "-"
                      THEN 0 - DigitsValue(body, 0) ELSE DigitsValue(body, 0)]
        ELSE [ok |-> FALSE, val |-> 0]

\* request.form.get("amount"): the field's text, or None when the form has no such field
Field(text) == [present |-> TRUE, text |-> text]

NoField == [present |-> FALSE, text |-> <<>>]

RawAmounts ==
    { Field(<<"-", "1">>), Field(<<"0">>), Field(<<"3">>), Field(<<" ", "5">>),
      Field(<<"1", "_", "0", "0", "0">>), Field(<<"1", "0", "0", "1">>),
      Field(<<"x">>), Field(<<"3", ".", "5">>), Field(<<>>), NoField }

----------------------------------------------------------------------------
(* Session tokens (user_service.py).  HS256 is modelled as a function that *)
(* is injective in the key and the payload: a signature verifies only for  *)
(* the key and the payload it was computed from.                           *)

SECRET == "SECRET"

OtherKey == "not-the-secret"

TokenLifetimeMinutes == 60

HS256(key, payload) == <<key, payload>>

\* int(x.timestamp()) of a time x given in ticks
IntTimestamp(ticks) == ticks \div TicksPerSecond

LifetimeTicks == TokenLifetimeMinutes * 60 * TicksPerSecond

create_token(email, t) ==
    LET payload == [sub |-> email,
                    iat |-> IntTimestamp(t),
                    exp |-> IntTimestamp(t + LifetimeTicks)]
    IN  [present |-> TRUE, payload |-> payload, sig |-> HS256(SECRET, payload)]

\* request.cookies.get('auth_token') of a request without the cookie
NoCookie ==
    LET payload == [sub |-> NoUser, iat |-> 0, exp |-> 0]
    IN  [present |-> FALSE, payload |-> payload, sig |-> HS256(OtherKey, payload)]

\* the decoding with the verification of the signature switched off
JwtValidNoSignature(token, t) ==
    /\ token.present
    /\ token.payload.exp * TicksPerSecond > t

\* jwt.decode(token, SECRET, algorithms=['HS256']) at time t: the signature is
\* verified, then exp against the current time (expired when exp <= now)
JwtValid(token, t) ==
    /\ token.present
    /\ token.sig = HS256(SECRET, token.payload)
    /\ token.payload.exp * TicksPerSecond > t

\* logged_in(): g.user on success, NoUser when jwt.decode raises InvalidTokenError
logged_in(token, t) == IF JwtValid(token, t) THEN token.payload.sub ELSE NoUser

\* a token whose payload names email but which the server did not sign
ForgedToken(email, t) ==
    LET good == create_token(email, t)
    IN  [good EXCEPT !.sig = HS256(OtherKey, good.payload)]

\* the cookies the requests of the ledger's specifications carry
SessionCookies ==
    {create_token(u, StartTime) : u \in Users}
        \cup {NoCookie, ForgedToken("alice", StartTime),
              create_token("bob", StartTime - LifetimeTicks)}

----------------------------------------------------------------------------
(* The account ledger (account_service.py) *)

Balance(found, balance) == [found |-> found, balance |-> balance]

\* the None of get_balance
NotFound == Balance(FALSE, 0)

\* the query without its owner condition
get_balance_any_owner(balances, account_number, owner) ==
    IF account_number \in Accounts
    THEN Balance(TRUE, balances[account_number])
    ELSE NotFound

\* SELECT balance FROM accounts where id=? and owner=?
get_balance(balances, account_number, owner) ==
    IF account_number \in Accounts /\ AccountOwner[account_number] = owner
    THEN Balance(TRUE, balances[account_number])
    ELSE NotFound

\* UPDATE accounts SET balance=balance+delta where id=?  (no row: nothing changes)
SqlUpdate(balances, id, delta) ==
    IF id \in DOMAIN balances THEN [balances EXCEPT ![id] = @ + delta] ELSE balances

\* the database as a connection with uncommitted writes sees it
RECURSIVE ApplyWrites(_, _)
ApplyWrites(balances, writes) ==
    IF writes = <<>> THEN balances
    ELSE ApplyWrites(SqlUpdate(balances, Head(writes)[1], Head(writes)[2]), Tail(writes))

----------------------------------------------------------------------------
(* Login (app.py 34-62, user_service.py 36-67 and 115-153) *)

NumAttempts == 3

Attempts == 1..NumAttempts

\* request.remote_addr
Clients == {"10.0.0.1", "10.0.0.2"}

\* how far the clock runs while logins are served, in ticks
MaxElapsed == 5

\* user_service.py 133: now - last_attempt < 2
ThrottleSeconds == 2

\* user_service.py 139: duration=2
MinimumDuration == 2

\* users.password: passlib's hash of each user's password
pbkdf2_sha256_hash(password) == <<"pbkdf2_sha256", password>>

pbkdf2_sha256_verify(password, hash) == pbkdf2_sha256_hash(password) = hash

UserHash ==
    ("alice" :> pbkdf2_sha256_hash("pw-alice")) @@ ("bob" :> pbkdf2_sha256_hash("pw-bob"))

\* request.form.get(name) of a field the form does not carry: Python's None
PyNone == "<None>"

\* the (email, password) pairs the login forms submit
LoginForms ==
    {<<"alice", "pw-alice">>, <<"alice", "pw-bob">>, <<"mallory", "pw-alice">>,
     <<"alice", PyNone>>}

\* dict.get(key, default)
DictGet(d, key, default) == IF key \in DOMAIN d THEN d[key] ELSE default

\* d[key] = value
DictSet(d, key, value) == (key :> value) @@ d

NoAttempt ==
    [pc |-> "idle", client |-> "", email |-> "", password |-> "",
     now |-> 0, last_attempt |-> 0, start_time |-> 0, user |-> NoUser,
     token |-> NoCookie, wake |-> 0, response |-> "none", after |-> {}]

\* the browser's cookie and the last verdict of logged_in(), before any login

NoJar == [token |-> NoCookie, issued |-> 0, copy |-> NoCookie, logged_out |-> FALSE]

NoVerdict == [user |-> NoUser, at |-> 0]

----------------------------------------------------------------------------
(* The requests *)

NoForm == [user |-> NoUser, source |-> MissingId, target |-> MissingId, raw |-> NoField]

Amount(p) == PyInt(req[p].raw.text).val

TransferLimit == 1000

Init ==
    /\ db = InitBalances
    /\ lock = NoRequest
    /\ txn = [p \in Requests |-> <<>>]
    /\ pc = [p \in Requests |-> "idle"]
    /\ req = [p \in Requests |-> NoForm]
    /\ outcome = [p \in Requests |-> "none"]
    /\ shown = [p \in Requests |-> NotFound]
    /\ now = StartTime
    /\ login_attempt_timestamps = [c \in {} |-> 0]
    /\ attempt = [a \in Attempts |-> NoAttempt]
    /\ jar = NoJar
    /\ verdict = NoVerdict

\* the HTTP status of a response: an uncaught exception is a 500
Status(r) ==
    CASE r \in {"LoginPage", "DetailsPage"} -> 200
      [] r = "Done" -> 303
      [] r \in {"InvalidAmount", "NegativeAmount", "LimitExceeded",
                "InsufficientFunds", "TransferFailed"} -> 400
      [] r = "SourceNotFound" -> 404
      [] r \in {"TypeError", "OperationalError", "Interrupted"} -> 500

\* the handler of request p returns (or aborts) with response r
Respond(p, r) ==
    /\ pc' = [pc EXCEPT ![p] = "returned"]
    /\ outcome' = [outcome EXCEPT ![p] = r]

\* the handler with the source looked up before the amount is range-checked
TransferPostLookupFirst(p, cookie, source, target, raw) ==
    LET user == logged_in(cookie, now)
        parsed == PyInt(raw.text)
    IN  /\ pc[p] = "idle"
        /\ IF user = NoUser
           THEN /\ Respond(p, "LoginPage")
                /\ UNCHANGED req
           ELSE /\ req' = [req EXCEPT ![p] = [user |-> user, source |-> source,
                                              target |-> target, raw |-> raw]]
                /\ IF ~raw.present THEN Respond(p, "TypeError")
                   ELSE IF ~parsed.ok THEN Respond(p, "InvalidAmount")
                   ELSE IF ~get_balance(db, source, user).found
                   THEN Respond(p, "SourceNotFound")
                   ELSE IF parsed.val < 0 THEN Respond(p, "NegativeAmount")
                   ELSE IF parsed.val > TransferLimit THEN Respond(p, "LimitExceeded")
                   ELSE /\ pc' = [pc EXCEPT ![p] = "get_balance"]
                        /\ UNCHANGED outcome
        /\ UNCHANGED <<db, lock, txn, shown, now, authVars>>

\* POST /transfer up to the first read of the ledger (app.py 97-126):
\* login_required, the form, int(amount) and the two range checks
TransferPost(p, cookie, source, target, raw) ==
    LET user == logged_in(cookie, now)
        parsed == PyInt(raw.text)
    IN  /\ pc[p] = "idle"
        /\ IF user = NoUser
           THEN /\ Respond(p, "LoginPage")
                /\ UNCHANGED req
           ELSE /\ req' = [req EXCEPT ![p] = [user |-> user, source |-> source,
                                              target |-> target, raw |-> raw]]
                /\ IF ~raw.present THEN Respond(p, "TypeError")
                   ELSE IF ~parsed.ok THEN Respond(p, "InvalidAmount")
                   ELSE IF parsed.val < 0 THEN Respond(p, "NegativeAmount")
                   ELSE IF parsed.val > TransferLimit THEN Respond(p, "LimitExceeded")
                   ELSE /\ pc' = [pc EXCEPT ![p] = "get_balance"]
                        /\ UNCHANGED outcome
        /\ UNCHANGED <<db, lock, txn, shown, now, authVars>>

\* the balance check on the account's row alone, whoever owns it
AuthorizeBalanceAnyOwner(p) ==
    LET available_balance == get_balance_any_owner(db, req[p].source, req[p].user)
    IN  /\ pc[p] = "get_balance"
        /\ IF ~available_balance.found THEN Respond(p, "SourceNotFound")
           ELSE IF Amount(p) > available_balance.balance
           THEN Respond(p, "InsufficientFunds")
           ELSE /\ pc' = [pc EXCEPT ![p] = "select_target"]
                /\ UNCHANGED outcome
        /\ UNCHANGED <<db, lock, txn, req, shown, now, authVars>>

\* app.py 128-132: the balance of (source, g.user) and the two checks on it
AuthorizeBalance(p) ==
    LET available_balance == get_balance(db, req[p].source, req[p].user)
    IN  /\ pc[p] = "get_balance"
        /\ IF ~available_balance.found THEN Respond(p, "SourceNotFound")
           ELSE IF Amount(p) > available_balance.balance
           THEN Respond(p, "InsufficientFunds")
           ELSE /\ pc' = [pc EXCEPT ![p] = "select_target"]
                /\ UNCHANGED outcome
        /\ UNCHANGED <<db, lock, txn, req, shown, now, authVars>>

\* do_transfer with the debit, in autocommit mode, run before the target is checked
SelectTargetAfterDebit(p) ==
    /\ pc[p] = "select_target"
    /\ db' = SqlUpdate(db, req[p].source, 0 - Amount(p))
    /\ IF req[p].target \in DOMAIN db
       THEN /\ pc' = [pc EXCEPT ![p] = "credit"]
            /\ lock' = p
            /\ UNCHANGED outcome
       ELSE /\ Respond(p, "TransferFailed")
            /\ UNCHANGED lock
    /\ UNCHANGED <<txn, req, shown, now, authVars>>

\* do_transfer without the check of the target
SelectTargetUnchecked(p) ==
    /\ pc[p] = "select_target"
    /\ pc' = [pc EXCEPT ![p] = "debit"]
    /\ UNCHANGED <<db, lock, txn, req, outcome, shown, now, authVars>>

\* do_transfer, account_service.py 54-59: the target must be a row of accounts;
\* False makes the handler abort(400, "Something bad happened") (app.py 136-137)
SelectTarget(p) ==
    /\ pc[p] = "select_target"
    /\ IF req[p].target \in DOMAIN db
       THEN /\ pc' = [pc EXCEPT ![p] = "debit"]
            /\ UNCHANGED outcome
       ELSE Respond(p, "TransferFailed")
    /\ UNCHANGED <<db, lock, txn, req, shown, now, authVars>>

\* the debit on a connection in autocommit mode: written to the database at once
DebitAutocommit(p) ==
    /\ pc[p] = "debit"
    /\ lock = NoRequest
    /\ lock' = p
    /\ db' = SqlUpdate(db, req[p].source, 0 - Amount(p))
    /\ pc' = [pc EXCEPT ![p] = "credit"]
    /\ UNCHANGED <<txn, req, outcome, shown, now, authVars>>

\* account_service.py 60-62: the first UPDATE opens the connection's transaction
\* and takes the write lock of the database file; it waits while another
\* connection holds it
Debit(p) ==
    /\ pc[p] = "debit"
    /\ lock = NoRequest
    /\ lock' = p
    /\ txn' = [txn EXCEPT ![p] = Append(@, <<req[p].source, 0 - Amount(p)>>)]
    /\ pc' = [pc EXCEPT ![p] = "credit"]
    /\ UNCHANGED <<db, req, outcome, shown, now, authVars>>

\* the credit with the source's id bound in place of the target's
CreditSource(p) ==
    /\ pc[p] = "credit"
    /\ txn' = [txn EXCEPT ![p] = Append(@, <<req[p].source, Amount(p)>>)]
    /\ pc' = [pc EXCEPT ![p] = "commit"]
    /\ UNCHANGED <<db, lock, req, outcome, shown, now, authVars>>

\* account_service.py 63-65
Credit(p) ==
    /\ pc[p] = "credit"
    /\ txn' = [txn EXCEPT ![p] = Append(@, <<req[p].target, Amount(p)>>)]
    /\ pc' = [pc EXCEPT ![p] = "commit"]
    /\ UNCHANGED <<db, lock, req, outcome, shown, now, authVars>>

\* account_service.py 66-67 and app.py 134-135, 139-140: the commit publishes
\* the connection's writes and the handler redirects
Commit(p) ==
    /\ pc[p] = "commit"
    /\ db' = ApplyWrites(db, txn[p])
    /\ txn' = [txn EXCEPT ![p] = <<>>]
    /\ lock' = NoRequest
    /\ Respond(p, "Done")
    /\ UNCHANGED <<req, shown, now, authVars>>

\* a close() that commits what the connection has written so far
InterruptCommits(p) ==
    /\ pc[p] \in {"credit", "commit"}
    /\ db' = ApplyWrites(db, txn[p])
    /\ txn' = [txn EXCEPT ![p] = <<>>]
    /\ lock' = NoRequest
    /\ Respond(p, "Interrupted")
    /\ UNCHANGED <<req, shown, now, authVars>>

\* an exception (or the death of the thread) between the debit and the commit:
\* account_service.py 68-69 closes the connection, which rolls its writes back
Interrupt(p) ==
    /\ pc[p] \in {"credit", "commit"}
    /\ txn' = [txn EXCEPT ![p] = <<>>]
    /\ lock' = NoRequest
    /\ Respond(p, "Interrupted")
    /\ UNCHANGED <<db, req, shown, now, authVars>>

\* account_service.py 60: the write lock stays taken for longer than the
\* connection's timeout and execute raises OperationalError (database is locked)
BusyTimeout(p) ==
    /\ pc[p] = "debit"
    /\ lock \notin {NoRequest, p}
    /\ Respond(p, "OperationalError")
    /\ UNCHANGED <<db, lock, txn, req, shown, now, authVars>>

\* GET /details (app.py 74-95): login_required, then the balance of the
\* account named in the query for g.user
Details(p, cookie, account_number) ==
    LET user == logged_in(cookie, now)
    IN  /\ pc[p] = "idle"
        /\ IF user = NoUser
           THEN /\ Respond(p, "LoginPage")
                /\ UNCHANGED <<req, shown>>
           ELSE /\ req' = [req EXCEPT ![p] = [NoForm EXCEPT !.user = user,
                                                           !.source = account_number]]
                /\ shown' = [shown EXCEPT ![p] = get_balance(db, account_number, user)]
                /\ Respond(p, "DetailsPage")
        /\ UNCHANGED <<db, lock, txn, now, authVars>>

Next ==
    \E p \in Requests :
        \/ \E cookie \in SessionCookies, source \in FormIds, target \in FormIds,
              raw \in RawAmounts : TransferPost(p, cookie, source, target, raw)
        \/ AuthorizeBalance(p)
        \/ SelectTarget(p)
        \/ Debit(p)
        \/ Credit(p)
        \/ Commit(p)
        \/ Interrupt(p)
        \/ BusyTimeout(p)
        \/ \E cookie \in SessionCookies, account_number \in FormIds :
              Details(p, cookie, account_number)

Spec == Init /\ [][Next]_vars

\* One request at a time: a request starts only when no other is being served.
InFlight(p) == pc[p] \notin {"idle", "returned"}

NoneInFlight == \A q \in Requests : ~InFlight(q)

NextSeq ==
    \E p \in Requests :
        \/ /\ NoneInFlight
           /\ \E cookie \in SessionCookies, source \in FormIds, target \in FormIds,
                 raw \in RawAmounts : TransferPost(p, cookie, source, target, raw)
        \/ AuthorizeBalance(p)
        \/ SelectTarget(p)
        \/ Debit(p)
        \/ Credit(p)
        \/ Commit(p)
        \/ Interrupt(p)
        \/ /\ NoneInFlight
           /\ \E cookie \in SessionCookies, account_number \in FormIds :
                 Details(p, cookie, account_number)

SpecSeq == Init /\ [][NextSeq]_vars

\* The ledger called directly: do_transfer(source, target, amount) with any
\* arguments, by concurrent callers.
CallDoTransfer(p, source, target, raw) ==
    /\ pc[p] = "idle"
    /\ raw.present /\ PyInt(raw.text).ok
    /\ req' = [req EXCEPT ![p] = [user |-> NoUser, source |-> source,
                                  target |-> target, raw |-> raw]]
    /\ pc' = [pc EXCEPT ![p] = "select_target"]
    /\ UNCHANGED <<db, lock, txn, outcome, shown, now, authVars>>

NextLedger ==
    \E p \in Requests :
        \/ \E source \in FormIds, target \in FormIds, raw \in RawAmounts :
              CallDoTransfer(p, source, target, raw)
        \/ SelectTarget(p)
        \/ Debit(p)
        \/ Credit(p)
        \/ Commit(p)
        \/ Interrupt(p)
        \/ BusyTimeout(p)

SpecLedger == Init /\ [][NextLedger]_vars

----------------------------------------------------------------------------
(* The login handler *)

\* the attempts whose too_soon_since_last_login() has returned
Decided(a) == attempt[a].pc \notin {"idle", "throttle_check"}

\* POST /login arrives: user_service.py 130-132, the client's address, the
\* clock and the client's last recorded attempt (0 when it has none).
\* after: the attempts whose throttle check was over when this one began.
\* The attempts are numbered in the order of their arrival.
LoginArrive(a, client, email, password) ==
    /\ attempt[a].pc = "idle"
    /\ \A b \in 1..(a - 1) : attempt[b].pc # "idle"
    /\ attempt' = [attempt EXCEPT ![a] =
            [@ EXCEPT !.pc = "throttle_check",
                      !.client = client, !.email = email, !.password = password,
                      !.now = now,
                      !.last_attempt = DictGet(login_attempt_timestamps, client, 0),
                      !.after = {b \in Attempts : Decided(b)}]]
    /\ UNCHANGED <<ledgerVars, now, login_attempt_timestamps, jar, verdict>>

\* the check that lets an attempt pass without recording it
ThrottleCheckNoRecord(a) ==
    /\ attempt[a].pc = "throttle_check"
    /\ IF attempt[a].now - attempt[a].last_attempt < ThrottleSeconds * TicksPerSecond
       THEN attempt' = [attempt EXCEPT ![a].pc = "returned",
                                       ![a].response = "TooManyAttempts"]
       ELSE attempt' = [attempt EXCEPT ![a].pc = "credentials",
                                       ![a].start_time = now]
    /\ UNCHANGED <<ledgerVars, now, login_attempt_timestamps, jar, verdict>>

\* the check that records the time of every attempt, rejected ones included
ThrottleCheckRecordsRejected(a) ==
    /\ attempt[a].pc = "throttle_check"
    /\ login_attempt_timestamps' =
            DictSet(login_attempt_timestamps, attempt[a].client, attempt[a].now)
    /\ IF attempt[a].now - attempt[a].last_attempt < ThrottleSeconds * TicksPerSecond
       THEN attempt' = [attempt EXCEPT ![a].pc = "returned",
                                       ![a].response = "TooManyAttempts"]
       ELSE attempt' = [attempt EXCEPT ![a].pc = "credentials",
                                       ![a].start_time = now]
    /\ UNCHANGED <<ledgerVars, now, jar, verdict>>

\* user_service.py 133-136, then app.py 48-50: too soon, the page with the
\* error; otherwise the attempt is recorded and start_time is read
ThrottleCheck(a) ==
    /\ attempt[a].pc = "throttle_check"
    /\ IF attempt[a].now - attempt[a].last_attempt < ThrottleSeconds * TicksPerSecond
       THEN /\ attempt' = [attempt EXCEPT ![a].pc = "returned",
                                          ![a].response = "TooManyAttempts"]
            /\ UNCHANGED login_attempt_timestamps
       ELSE /\ login_attempt_timestamps' =
                    DictSet(login_attempt_timestamps, attempt[a].client, attempt[a].now)
            /\ attempt' = [attempt EXCEPT ![a].pc = "credentials",
                                          ![a].start_time = now]
    /\ UNCHANGED <<ledgerVars, now, jar, verdict>>

NoCredentials == [user |-> NoUser, token |-> NoCookie, raised |-> FALSE]

\* get_user_with_credentials that takes the row of the email for the user
get_user_by_email(email, password, t) ==
    IF email \notin DOMAIN UserHash THEN NoCredentials
    ELSE [user |-> email, token |-> create_token(email, t), raised |-> FALSE]

\* get_user_with_credentials, user_service.py 53-67: the row of the email, the
\* password against its hash, and a token for the row's email. passlib's
\* verify raises a TypeError for a secret that is None, and nothing between
\* line 63 and the server catches it.
get_user_with_credentials(email, password, t) ==
    IF email \notin DOMAIN UserHash THEN NoCredentials
    ELSE IF password = PyNone THEN [NoCredentials EXCEPT !.raised = TRUE]
    ELSE IF ~pbkdf2_sha256_verify(password, UserHash[email]) THEN NoCredentials
    ELSE [user |-> email, token |-> create_token(email, t), raised |-> FALSE]

\* wait_to_avoid_timing_attacks, user_service.py 151-153: the time at which
\* time.sleep(duration - elapsed) returns, or now when nothing is left to wait
WakeTime(start_time, t) ==
    LET elapsed == t - start_time
        duration == MinimumDuration * TicksPerSecond
    IN  IF elapsed < duration THEN t + (duration - elapsed) ELSE t

\* app.py 52-56: the credentials are checked and the handler goes to sleep
\* for what is left of the minimum duration; an exception of line 54 leaves
\* the handler at once, as a 500
Authenticate(a) ==
    LET r == get_user_with_credentials(attempt[a].email, attempt[a].password, now)
    IN  /\ attempt[a].pc = "credentials"
        /\ IF r.raised
           THEN attempt' = [attempt EXCEPT ![a].pc = "returned",
                                           ![a].response = "TypeError"]
           ELSE attempt' = [attempt EXCEPT ![a].pc = "sleep",
                                      ![a].user = r.user, ![a].token = r.token,
                                      ![a].wake = WakeTime(attempt[a].start_time, now)]
        /\ UNCHANGED <<ledgerVars, now, login_attempt_timestamps, jar, verdict>>

\* the response that tells an unknown email from a wrong password
LoginRespondNamesReason(a) ==
    /\ attempt[a].pc = "sleep"
    /\ now >= attempt[a].wake
    /\ attempt' = [attempt EXCEPT ![a].pc = "returned",
            ![a].response = IF attempt[a].user # NoUser THEN "Dashboard"
                            ELSE IF attempt[a].email \in DOMAIN UserHash
                            THEN "InvalidCredentials" ELSE "UnknownEmail"]
    /\ UNCHANGED <<ledgerVars, now, login_attempt_timestamps, jar, verdict>>

\* app.py 58-62, once the sleep is over: the error page, or the redirect that
\* sets the auth_token cookie
LoginRespond(a) ==
    /\ attempt[a].pc = "sleep"
    /\ now >= attempt[a].wake
    /\ attempt' = [attempt EXCEPT ![a].pc = "returned",
            ![a].response = IF attempt[a].user = NoUser
                            THEN "InvalidCredentials" ELSE "Dashboard"]
    /\ UNCHANGED <<ledgerVars, now, login_attempt_timestamps, jar, verdict>>

\* the clock advances (it never runs backwards)
LoginTick ==
    /\ now < StartTime + MaxElapsed
    /\ now' = now + 1
    /\ UNCHANGED <<ledgerVars, authVars>>

\* app.py 60-61: the auth_token cookie that the response to attempt a sets
SetCookie(a) ==
    IF attempt[a].response = "Dashboard" THEN attempt[a].token ELSE NoCookie

\* how many login attempts are made when every form is tried
NumLogins == 2

Logins == 1..NumLogins

\* Logins with every form, from every client
NextLogin ==
    \/ \E a \in Logins :
          \/ \E client \in Clients, form \in LoginForms :
                LoginArrive(a, client, form[1], form[2])
          \/ ThrottleCheck(a)
          \/ Authenticate(a)
          \/ LoginRespond(a)
    \/ LoginTick

SpecLogin == Init /\ [][NextLogin]_vars

\* Logins that probe the throttle: every attempt submits the same wrong password.
ThrottleForm == <<"alice", "pw-bob">>

NextThrottle ==
    \/ \E a \in Attempts :
          \/ \E client \in Clients :
                LoginArrive(a, client, ThrottleForm[1], ThrottleForm[2])
          \/ ThrottleCheck(a)
          \/ Authenticate(a)
          \/ LoginRespond(a)
    \/ LoginTick

SpecThrottle == Init /\ [][NextThrottle]_vars

----------------------------------------------------------------------------
(* The auth_token cookie of one browser, and the routes behind              *)
(* login_required that it is presented to                                   *)

\* how far from the server's start, and around a token's end of life, the
\* instants of the token's specification lie, in ticks
MaxDelay == 3

TokenInstants ==
    {StartTime + d : d \in 0..MaxDelay}
        \cup {StartTime + LifetimeTicks - MaxDelay + d : d \in 0..(2 * MaxDelay)}

\* app.py 60-61 with user_service.py 65: a successful login of email sets the cookie
TokenIssue(email) ==
    /\ jar' = [token |-> create_token(email, now), issued |-> now,
               copy |-> create_token(email, now), logged_out |-> FALSE]
    /\ UNCHANGED <<ledgerVars, now, login_attempt_timestamps, attempt, verdict>>

\* what a client can make of a token without the server's secret: another
\* subject or a later expiry under the old signature, or a signature of its own
Tampered(token) ==
    {[token EXCEPT !.payload.sub = e] : e \in Users \ {token.payload.sub}}
        \cup {[token EXCEPT !.payload.exp = @ + TokenLifetimeMinutes * 60],
              [token EXCEPT !.sig = HS256(OtherKey, token.payload)]}

\* the browser's token as the server issued it
Genuine == \E e \in Users : jar.token = create_token(e, jar.issued)

TokenTamper ==
    /\ Genuine
    /\ \E t \in Tampered(jar.token) : jar' = [jar EXCEPT !.token = t]
    /\ UNCHANGED <<ledgerVars, now, login_attempt_timestamps, attempt, verdict>>

\* app.py 150-152: GET /logout answers with a redirect that deletes the
\* browser's auth_token cookie; the server keeps no record of it. The token
\* itself stays with whoever copied it while it was in the cookie.
Logout ==
    /\ jar.token.present
    /\ jar' = [jar EXCEPT !.token = NoCookie, !.logged_out = TRUE]
    /\ UNCHANGED <<ledgerVars, now, login_attempt_timestamps, attempt, verdict>>

\* the copy of the token issued last is put back into the cookie
Replay ==
    /\ jar.logged_out
    /\ ~jar.token.present
    /\ jar' = [jar EXCEPT !.token = jar.copy]
    /\ UNCHANGED <<ledgerVars, now, login_attempt_timestamps, attempt, verdict>>

\* a server that remembers the logout and turns the session's token away
PresentCookieRevoked ==
    /\ verdict' = [user |-> IF jar.logged_out THEN NoUser
                            ELSE logged_in(jar.token, now),
                   at |-> now]
    /\ UNCHANGED <<ledgerVars, now, login_attempt_timestamps, attempt, jar>>

\* a route behind login_required is requested with the cookie
\* (user_service.py 29-33 and 81-87)
PresentCookie ==
    /\ verdict' = [user |-> logged_in(jar.token, now), at |-> now]
    /\ UNCHANGED <<ledgerVars, now, login_attempt_timestamps, attempt, jar>>

TokenTick ==
    /\ \E t \in TokenInstants : t > now /\ now' = t
    /\ UNCHANGED <<ledgerVars, authVars>>

NextToken ==
    \/ \E email \in Users : TokenIssue(email)
    \/ TokenTamper
    \/ Logout
    \/ Replay
    \/ PresentCookie
    \/ TokenTick

SpecToken == Init /\ [][NextToken]_vars


----------------------------------------------------------------------------
(* Properties of the transfer workflow and of the ledger *)

\* request p is a POST /transfer of a logged-in user whose amount parsed
ParsedTransfer(p) ==
    /\ pc[p] # "idle"
    /\ outcome[p] \notin {"LoginPage", "DetailsPage"}
    /\ req[p].raw.present
    /\ PyInt(req[p].raw.text).ok

Owns(user, id) == id \in Accounts /\ AccountOwner[id] = user

\* C1: when all NumRequests requests are transfers of the same amount > 0 from
\* the same source, owned by the requester, to other existing accounts, each
\* amount within the balance B the source had before them and together above
\* it, at most B \div amount of them reach Done.
C1_AtMostFloorSucceed ==
    LET s == req[1].source
        a == Amount(1)
    IN  ( /\ \A p \in Requests :
                /\ ParsedTransfer(p)
                /\ req[p].source = s
                /\ Amount(p) = a
                /\ Owns(req[p].user, s)
                /\ req[p].target \in Accounts \ {s}
          /\ a > 0
          /\ a <= TransferLimit
          /\ a <= InitBalances[s]
          /\ NumRequests * a > InitBalances[s] )
        => Cardinality({p \in Requests : outcome[p] = "Done"}) <= InitBalances[s] \div a

\* C2: no account's committed balance is negative.
C2_BalancesNonNegative == \A id \in Accounts : db[id] >= 0

\* the preconditions of C3 for request p, on the committed balances
ValidTransfer(p) ==
    /\ ParsedTransfer(p)
    /\ Owns(req[p].user, req[p].source)
    /\ req[p].target \in Accounts
    /\ 0 <= Amount(p) /\ Amount(p) <= TransferLimit
    /\ db[req[p].source] >= Amount(p)

\* the step that completes the transfer of request p
Completes(p) == pc[p] = "commit" /\ outcome'[p] = "Done"

\* C3 as stated: a valid transfer served alone leaves the source at its old
\* balance minus the amount, the target at its old balance plus the amount and
\* the sum of the two unchanged.
C3_DebitsSourceCreditsTarget ==
    [][\A p \in Requests :
          (Completes(p) /\ ValidTransfer(p)) =>
              LET s == req[p].source
                  t == req[p].target
              IN  /\ db'[s] = db[s] - Amount(p)
                  /\ db'[t] = db[t] + Amount(p)
                  /\ db'[s] + db'[t] = db[s] + db[t]]_vars

\* C3 amended: served alone, the ledger changes only in the step that completes
\* a transfer, so the balances that step finds are those the request found when
\* it began; a valid request is not rejected; and the step moves the amount from
\* the source to a different target (the sum of the two unchanged, every other
\* account untouched), or changes nothing when source and target are the same.
C3_TransferEffect ==
    [][\A p \in Requests :
          /\ (Completes(p) /\ req[p].source # req[p].target) =>
                 LET s == req[p].source
                     t == req[p].target
                 IN  /\ ValidTransfer(p)
                     /\ db'[s] = db[s] - Amount(p)
                     /\ db'[t] = db[t] + Amount(p)
                     /\ db'[s] + db'[t] = db[s] + db[t]
                     /\ \A id \in Accounts \ {s, t} : db'[id] = db[id]
          /\ (Completes(p) /\ req[p].source = req[p].target) => db' = db
          /\ (\A q \in Requests : ~Completes(q)) => db' = db
          /\ (InFlight(p) /\ ValidTransfer(p) /\ pc'[p] = "returned") =>
                 outcome'[p] \in {"Done", "Interrupted"}]_vars

C3_Witness ==
    \E p \in Requests :
        /\ outcome[p] = "Done"
        /\ req[p].source # req[p].target
        /\ Amount(p) > 0
        /\ db[req[p].source] = InitBalances[req[p].source] - Amount(p)

\* C4: a details page shows the stored balance exactly when a row with the
\* requested id and the requester as owner exists; for an account of another
\* owner it shows what it shows for an id that is no account: None.
C4_BalanceOnlyForOwner ==
    [][\A p \in Requests :
          (pc[p] = "idle" /\ outcome'[p] = "DetailsPage") =>
              LET id == req'[p].source
                  user == req'[p].user
              IN  /\ shown'[p].found <=> (id \in Accounts /\ AccountOwner[id] = user)
                  /\ shown'[p].found => shown'[p].balance = db[id]
                  /\ ~shown'[p].found => shown'[p] = NotFound]_vars

C4_Witness ==
    \E p, q \in Requests :
        /\ outcome[p] = "DetailsPage" /\ outcome[q] = "DetailsPage"
        /\ req[p].source = req[q].source
        /\ req[p].source \in Accounts
        /\ AccountOwner[req[p].source] # req[p].user
        /\ shown[p] = NotFound
        /\ shown[q] = Balance(TRUE, db[req[q].source])

\* C5: a call of do_transfer whose target is no account returns False in its
\* first step, and neither the committed balances nor any connection's
\* uncommitted writes nor the write lock change.
C5_MissingTargetFails ==
    [][\A p \in Requests :
          (pc[p] = "select_target" /\ req[p].target \notin Accounts /\ pc'[p] # pc[p])
              => /\ pc'[p] = "returned"
                 /\ outcome'[p] = "TransferFailed"
                 /\ db' = db
                 /\ txn' = txn
                 /\ lock' = lock]_vars

C5_Witness ==
    \E p \in Requests :
        /\ outcome[p] = "TransferFailed"
        /\ req[p].target \notin Accounts
        /\ req[p].source \notin Accounts
        /\ Amount(p) < 0

\* C6: the committed balances change only in the step that commits a
\* transfer, and then by its debit and its credit together; a transfer
\* interrupted after its debit leaves them as they were and its writes are
\* dropped, so they are never committed later.
C6_DebitCreditAtomic ==
    [][/\ \/ db' = db
          \/ \E p \in Requests :
                /\ Completes(p)
                /\ db' = SqlUpdate(SqlUpdate(db, req[p].source, 0 - Amount(p)),
                                    req[p].target, Amount(p))
       /\ \A p \in Requests :
             (pc[p] \in {"credit", "commit"} /\ pc'[p] = "returned" /\ ~Completes(p))
                 => db' = db /\ txn'[p] = <<>>
       /\ \A p \in Requests : pc'[p] = "returned" => txn'[p] = <<>>]_vars

C6_Witness ==
    \E p, q \in Requests :
        /\ outcome[p] = "Interrupted"
        /\ Amount(p) > 0
        /\ req[p].source # req[p].target
        /\ outcome[q] = "DetailsPage"
        /\ req[q].source = req[p].source
        /\ shown[q] = Balance(TRUE, InitBalances[req[p].source])
        /\ db = InitBalances

\* C9: the amount checks come first, negative before the limit, and decide the
\* rejection whatever the source is; then the source must be an account of the
\* requester, then the amount must be within its balance; the ledger's
\* transfer starts only from the balance check, with all four checks passed.
C9_ChecksInOrder ==
    [][\A p \in Requests :
          LET a == PyInt(req'[p].raw.text).val
              owned == Owns(req'[p].user, req'[p].source)
          IN  /\ (pc[p] = "idle" /\ ParsedTransfer(p)') =>
                    /\ a < 0 => outcome'[p] = "NegativeAmount"
                    /\ (a >= 0 /\ a > TransferLimit) => outcome'[p] = "LimitExceeded"
                    /\ (a >= 0 /\ a <= TransferLimit) =>
                          pc'[p] = "get_balance" /\ outcome'[p] = "none"
              /\ (pc[p] = "get_balance" /\ pc'[p] # pc[p]) =>
                    /\ ~owned => outcome'[p] = "SourceNotFound"
                    /\ (owned /\ a > db[req[p].source]) =>
                          outcome'[p] = "InsufficientFunds"
                    /\ (owned /\ a <= db[req[p].source]) =>
                          pc'[p] = "select_target" /\ outcome'[p] = "none"
              /\ (pc'[p] = "select_target" /\ pc[p] # "select_target") =>
                    /\ pc[p] = "get_balance"
                    /\ 0 <= a /\ a <= TransferLimit
                    /\ owned
                    /\ a <= db[req[p].source]]_vars

C9_Witness ==
    \E p \in Requests :
        /\ outcome[p] = "LimitExceeded"
        /\ ~Owns(req[p].user, req[p].source)

\* C10: a transfer whose amount does not parse as an integer (malformed or
\* empty text, or no amount field) ends in InvalidAmount, HTTP 400.
C10_UnparsedAmountRejected ==
    \A p \in Requests :
        ( /\ pc[p] = "returned"
          /\ outcome[p] \notin {"LoginPage", "DetailsPage"}
          /\ ~(req[p].raw.present /\ PyInt(req[p].raw.text).ok) )
        => outcome[p] = "InvalidAmount" /\ Status(outcome[p]) = 400

----------------------------------------------------------------------------
(* Properties of the login throttle and of the session tokens *)

Throttled(a) == attempt[a].response = "TooManyAttempts"

Allowed(a) == Decided(a) /\ ~Throttled(a)

SameClient(a, b) ==
    /\ attempt[a].pc # "idle" /\ attempt[b].pc # "idle"
    /\ attempt[a].client = attempt[b].client

ThrottleTicks == ThrottleSeconds * TicksPerSecond

\* the attempts of a's client were served one after another: of any two, one
\* had left the throttle before the other entered it
ServedInTurn(a) ==
    \A x, y \in Attempts :
        (x # y /\ SameClient(a, x) /\ SameClient(a, y))
            => (x \in attempt[y].after \/ y \in attempt[x].after)

\* C7 as stated, for a client whose attempts are served one after another: an
\* attempt that arrives less than 2 seconds after another attempt of the client
\* is rejected.
C7_SecondRejected ==
    \A a, b \in Attempts :
        ( /\ a # b /\ SameClient(a, b) /\ Decided(b)
          /\ a \in attempt[b].after
          /\ ServedInTurn(a)
          /\ attempt[b].now - attempt[a].now < ThrottleTicks )
        => Throttled(b)

\* C7 amended: the second attempt is rejected when the first was allowed and
\* the second reads the first's timestamp as the client's last attempt, in any
\* interleaving; and when the first was allowed and the client's attempts are
\* served one after another.
C7_SecondRejectedAfterAllowed ==
    \A a, b \in Attempts :
        ( /\ a # b /\ SameClient(a, b) /\ Decided(b)
          /\ Allowed(a)
          /\ attempt[b].now - attempt[a].now < ThrottleTicks
          /\ \/ attempt[b].last_attempt = attempt[a].now
             \/ a \in attempt[b].after /\ ServedInTurn(a) )
        => Throttled(b)

C7_Witness ==
    \E a, b \in Attempts :
        /\ a # b /\ SameClient(a, b)
        /\ Allowed(a)
        /\ a \in attempt[b].after /\ ServedInTurn(a)
        /\ attempt[b].now > attempt[a].now
        /\ attempt[b].now - attempt[a].now < ThrottleTicks
        /\ Throttled(b)
        /\ attempt[b].pc = "returned"

\* the step in which the cookie is presented and judged
Presented == verdict' # verdict

\* the second at which a token issued at time t (in ticks) expires
ExpOf(t) == (t \div TicksPerSecond) + TokenLifetimeMinutes * 60

\* C8 as stated: a token issued for an email at time t is accepted with that
\* subject at every time before t + 60 minutes and rejected at every time
\* after its expiry, and a token whose signature does not match its payload is
\* rejected.
C8_TokenRoundTrip ==
    [][Presented =>
          /\ \A e \in Users :
                jar.token = create_token(e, jar.issued) =>
                    /\ now < jar.issued + LifetimeTicks => verdict'.user = e
                    /\ now > jar.token.payload.exp * TicksPerSecond
                          => verdict'.user = NoUser
          /\ jar.token.sig # HS256(SECRET, jar.token.payload)
                => verdict'.user = NoUser]_vars

\* C8 amended: the token expires at the whole second exp = floor(t) + 3600,
\* which is t + 60 minutes or less than a second before it; it is accepted
\* with its subject at every time before exp and rejected from exp on, and a
\* token whose signature does not match its payload is rejected at every time.
C8_TokenRoundTripUntilExp ==
    [][Presented =>
          /\ \A e \in Users :
                jar.token = create_token(e, jar.issued) =>
                    /\ jar.token.payload.exp = ExpOf(jar.issued)
                    /\ ExpOf(jar.issued) * TicksPerSecond <= jar.issued + LifetimeTicks
                    /\ ExpOf(jar.issued) * TicksPerSecond
                          > jar.issued + LifetimeTicks - TicksPerSecond
                    /\ now < ExpOf(jar.issued) * TicksPerSecond => verdict'.user = e
                    /\ now >= ExpOf(jar.issued) * TicksPerSecond
                          => verdict'.user = NoUser
          /\ jar.token.sig # HS256(SECRET, jar.token.payload)
                => verdict'.user = NoUser]_vars

C8_Witness ==
    \E e \in Users :
        /\ jar.token = create_token(e, jar.issued)
        /\ verdict = [user |-> e, at |-> now]
        /\ now + 1 = ExpOf(jar.issued) * TicksPerSecond
        /\ jar.issued > StartTime

----------------------------------------------------------------------------
(* Frame, authorization and conservation properties of the transfer workflow *)

Rejections ==
    {"InvalidAmount", "NegativeAmount", "LimitExceeded", "SourceNotFound",
     "InsufficientFunds", "TransferFailed"}

\* the step in which the handler of request p returns
Returns(p) == pc[p] # "returned" /\ pc'[p] = "returned"

\* C16: a transfer that ends in a rejection has written nothing, committed or
\* pending, when it is rejected, and its last step changes no balance; the
\* committed balances change only in the step that ends a run in Done.
C16_RejectedLeavesLedger ==
    [][/\ \A p \in Requests :
             (Returns(p) /\ outcome'[p] \in Rejections)
                 => /\ db' = db
                    /\ txn[p] = <<>> /\ txn'[p] = <<>>
                    /\ lock # p /\ lock' = lock
       /\ db' # db => \E p \in Requests : Returns(p) /\ outcome'[p] = "Done"
       /\ \A p \in Requests : (pc[p] = "returned" /\ outcome[p] \in Rejections)
             => pc'[p] = "returned" /\ outcome'[p] = outcome[p]]_vars

C16_Witness ==
    \E p, q \in Requests :
        /\ outcome[p] = "TransferFailed"
        /\ Owns(req[p].user, req[p].source) /\ Amount(p) > 0
        /\ outcome[q] = "InsufficientFunds"
        /\ db = InitBalances

\* C17: a balance decreases only in the step that completes a transfer whose
\* source it is, and the requester of that transfer owns the account.
C17_OnlyOwnerDebits ==
    [][\A id \in Accounts :
          db'[id] < db[id] =>
              \E p \in Requests :
                  /\ Completes(p)
                  /\ req[p].source = id
                  /\ AccountOwner[id] = req[p].user]_vars

C17_Witness ==
    \E p, q \in Requests :
        /\ outcome[p] = "SourceNotFound"
        /\ req[p].source \in Accounts
        /\ AccountOwner[req[p].source] # req[p].user
        /\ PyInt(req[p].raw.text).val > 0
        /\ outcome[q] = "Done"
        /\ req[q].source = req[p].source
        /\ db[req[q].source] < InitBalances[req[q].source]

RECURSIVE SumOver(_, _)
SumOver(balances, ids) ==
    IF ids = {} THEN 0
    ELSE LET id == CHOOSE x \in ids : TRUE
         IN  balances[id] + SumOver(balances, ids \ {id})

\* C18: the committed balances of all accounts add up to what they added up
\* to at the start, in every reachable state.
C18_SumConserved == SumOver(db, Accounts) = SumOver(InitBalances, Accounts)

\* two transfers from one source both done past its balance, and the sum kept
C18_Witness ==
    /\ \A p \in Requests : outcome[p] = "Done"
    /\ \E id \in Accounts : db[id] < 0
    /\ db # InitBalances

C18_SelfTransferWitness ==
    \E p \in Requests :
        outcome[p] = "Done" /\ req[p].source = req[p].target /\ Amount(p) > 0

----------------------------------------------------------------------------
(* The throttle under concurrent attempts, and what it reads and writes *)

\* C14: of the attempts of one client that the throttle lets pass, no two
\* read the clock less than 2 seconds apart, however the attempts interleave.
C14_OneAllowedPerWindow ==
    \A a, b \in Attempts :
        ( /\ a # b /\ SameClient(a, b)
          /\ Allowed(a) /\ Allowed(b)
          /\ attempt[a].now <= attempt[b].now )
        => attempt[b].now - attempt[a].now >= ThrottleTicks

\* the step in which the throttle decides on attempt a
Decides(a) == attempt[a].pc = "throttle_check" /\ attempt'[a].pc # "throttle_check"

\* the mapping changes only in the step that lets an attempt pass, and there
\* only in the entry of the attempt's client, which becomes the attempt's time
ThrottleFrame ==
    /\ \A a \in Attempts :
          Decides(a) =>
              IF attempt'[a].response = "TooManyAttempts"
              THEN login_attempt_timestamps' = login_attempt_timestamps
              ELSE /\ DOMAIN login_attempt_timestamps' =
                          DOMAIN login_attempt_timestamps \cup {attempt[a].client}
                   /\ login_attempt_timestamps'[attempt[a].client] = attempt[a].now
                   /\ \A c \in DOMAIN login_attempt_timestamps \ {attempt[a].client} :
                          login_attempt_timestamps'[c] = login_attempt_timestamps[c]
    /\ login_attempt_timestamps' # login_attempt_timestamps
          => \E a \in Attempts : Decides(a)

\* an attempt that comes 2 seconds or more after every attempt of its client
\* that had been let pass when it arrived is let pass itself
AllowedAfterWindow ==
    \A b \in Attempts :
        ( /\ Decided(b)
          /\ \A a \in attempt[b].after :
                (SameClient(a, b) /\ Allowed(a))
                    => attempt[b].now - attempt[a].now >= ThrottleTicks )
        => ~Throttled(b)

\* an attempt is rejected only on a timestamp that an attempt of its own
\* client, let pass less than 2 seconds before it, recorded
RejectedByOwnClient ==
    \A b \in Attempts :
        Throttled(b) =>
            \E a \in Attempts \ {b} :
                /\ SameClient(a, b) /\ Allowed(a)
                /\ attempt[a].now = attempt[b].last_attempt
                /\ attempt[b].now - attempt[a].now < ThrottleTicks

\* C15: a rejected attempt leaves the mapping as it is and an allowed one sets
\* only its client's entry, to its time; so an attempt 2 seconds or more after
\* the client's last allowed attempt passes whatever was rejected in between,
\* and no attempt is rejected on account of another client's attempts.
C15_ThrottleFrame ==
    /\ [](AllowedAfterWindow /\ RejectedByOwnClient)
    /\ [][ThrottleFrame]_vars

\* allowed, rejected, and allowed again less than 2 seconds after the
\* rejected attempt
C15_Witness ==
    \E a, c, b \in Attempts :
        /\ SameClient(a, c) /\ SameClient(c, b)
        /\ Allowed(a) /\ Throttled(c) /\ Allowed(b)
        /\ a \in attempt[c].after /\ c \in attempt[b].after
        /\ attempt[b].now - attempt[a].now >= ThrottleTicks
        /\ attempt[b].now - attempt[c].now < ThrottleTicks
        /\ login_attempt_timestamps[attempt[b].client] = attempt[b].now

\* an attempt let pass less than 2 seconds after another client's attempt
C15_OtherClientWitness ==
    \E a, b \in Attempts :
        /\ attempt[a].pc # "idle" /\ attempt[b].pc # "idle"
        /\ attempt[a].client # attempt[b].client
        /\ Allowed(a) /\ a \in attempt[b].after /\ Allowed(b)
        /\ attempt[b].now - attempt[a].now < ThrottleTicks

----------------------------------------------------------------------------
(* Logout and the life of a token *)

\* C19: a token issued before a logout and presented again after it is judged
\* by its signature and expiry alone: before its exp it is accepted with its
\* subject, as it was before the logout, and the logout itself changes
\* nothing but the browser's cookie.
C19_TokenSurvivesLogout ==
    [][/\ (Presented /\ jar.logged_out) =>
             /\ verdict'.user = logged_in(jar.copy, now) \/ jar.token # jar.copy
             /\ \A e \in Users :
                   ( /\ jar.token = create_token(e, jar.issued)
                     /\ now < ExpOf(jar.issued) * TicksPerSecond )
                   => verdict'.user = e
       /\ (jar'.logged_out /\ ~jar.logged_out) =>
             /\ ~jar'.token.present
             /\ jar'.copy = jar.copy
             /\ UNCHANGED <<ledgerVars, now, login_attempt_timestamps, attempt, verdict>>]_vars

\* accepted after the logout, at the last instant before the token's exp
C19_Witness ==
    \E e \in Users :
        /\ jar.logged_out
        /\ jar.token = create_token(e, jar.issued)
        /\ verdict = [user |-> e, at |-> now]
        /\ now > jar.issued
        /\ now + 1 = ExpOf(jar.issued) * TicksPerSecond

----------------------------------------------------------------------------
(* Properties of the login handler *)

\* the submitted email has a row and the submitted password verifies against it
Authentic(a) ==
    /\ attempt[a].email \in DOMAIN UserHash
    /\ attempt[a].password # PyNone
    /\ pbkdf2_sha256_verify(attempt[a].password, UserHash[attempt[a].email])

Returned(a) == attempt[a].pc = "returned"

\* C11: the response to a login sets the auth_token cookie exactly when the
\* attempt passed the throttle, its email has a row and its password
\* verifies; the cookie is then a valid token whose subject is the submitted
\* email; a throttled attempt has looked up no credentials and made no token,
\* and credentials are looked up only by an attempt that passed the throttle.
C11_TokenIffAuthenticated ==
    /\ [](\A a \in Logins :
            /\ Returned(a) =>
                  /\ SetCookie(a).present <=> (~Throttled(a) /\ Authentic(a))
                  /\ SetCookie(a).present =>
                        /\ SetCookie(a).payload.sub = attempt[a].email
                        /\ attempt[a].user = attempt[a].email
                        /\ SetCookie(a).sig = HS256(SECRET, SetCookie(a).payload)
            /\ (Returned(a) /\ Throttled(a)) =>
                  /\ attempt[a].user = NoUser
                  /\ attempt[a].token = NoCookie
                  /\ attempt[a].start_time = 0)
    /\ [][\A a \in Logins :
             (attempt'[a].user # attempt[a].user \/ attempt'[a].token # attempt[a].token)
                 => /\ attempt[a].pc = "credentials"
                    /\ attempt[a].now - attempt[a].last_attempt >= ThrottleTicks]_vars

\* a login, and a throttled attempt with the right password right after it
C11_Witness ==
    \E a, b \in Logins :
        /\ Returned(a) /\ Throttled(a) /\ Authentic(a)
        /\ Returned(b) /\ SetCookie(b).present
        /\ SameClient(a, b)
        /\ attempt[a].last_attempt = attempt[b].now

\* the two ways in which the credentials of an attempt that passed the
\* throttle are found wrong
FailsOnUnknownEmail(a) ==
    /\ Returned(a) /\ ~Throttled(a)
    /\ attempt[a].email \notin DOMAIN UserHash
    /\ attempt[a].password # PyNone

FailsOnWrongPassword(a) ==
    /\ Returned(a) /\ ~Throttled(a)
    /\ attempt[a].email \in DOMAIN UserHash
    /\ attempt[a].password # PyNone
    /\ ~pbkdf2_sha256_verify(attempt[a].password, UserHash[attempt[a].email])

\* what the client sees of the response: the page and the cookie
Observable(a) == [response |-> attempt[a].response, cookie |-> SetCookie(a)]

ReturnsPastThrottle(a) ==
    /\ attempt[a].pc \in {"credentials", "sleep"}
    /\ attempt'[a].pc = "returned"

\* C13: the handler of an attempt that passed the throttle returns no earlier
\* than 2 seconds after its start_time.
C13_MinimumDuration ==
    [][\A a \in Logins :
          ReturnsPastThrottle(a)
              => now >= attempt[a].start_time + MinimumDuration * TicksPerSecond]_vars

\* the same of the attempts whose credential check returns a result
MinimumDurationUnlessRaised ==
    [][\A a \in Logins :
          (ReturnsPastThrottle(a) /\ attempt'[a].response # "TypeError")
              => now >= attempt[a].start_time + MinimumDuration * TicksPerSecond]_vars

====
